---- MODULE Spec2Model ----
(***************************************************************************)
(* FastAPI backend (fastapi_backend.py) and Streamlit client               *)
(* (streamlit_frontend.py).                                                *)
(*                                                                         *)
(* Text is a sequence of one-character strings; a displayed or returned    *)
(* message is a sequence of string pieces (the literal parts of an         *)
(* f-string followed/preceded by the characters of the interpolated        *)
(* value).  A JSON value is a tagged record.  A float is a                 *)
(* fixed-point integer in units of 1/FloatScale.                           *)
(***************************************************************************)
EXTENDS Integers, Sequences, FiniteSets, TLC

\* ---------------------------------------------------------------- bounds
MaxNameLen == 1
MaxPathLen == 2
MaxPriceLen == 2
MaxId == 3
MaxPrice == 2

FloatScale == 1000

NameChars == {"a", "b"}
PathChars == {"-", "1", "2", "a"}
PriceChars == {".", "1", "a"}

\* ---------------------------------------------------------------- text
Digits == <<"0", "1", "2", "3", "4", "5", "6", "7", "8", "9">>

IsDigit(c) == \E i \in 1..10 : Digits[i] = c

DigitVal(c) == (CHOOSE i \in 1..10 : Digits[i] = c) - 1

RECURSIVE Pow10(_)
Pow10(k) == IF k = 0 THEN 1 ELSE 10 * Pow10(k - 1)

RECURSIVE NatVal(_)
\* value of a non-empty sequence of decimal digits
NatVal(s) == IF Len(s) = 0 THEN 0
             ELSE 10 * NatVal(SubSeq(s, 1, Len(s) - 1)) + DigitVal(s[Len(s)])

RECURSIVE NatToStr(_)
NatToStr(n) == IF n < 10 THEN <<Digits[n + 1]>>
               ELSE NatToStr(n \div 10) \o <<Digits[(n % 10) + 1]>>

\* str(int), as used by an f-string
IntToStr(n) == IF n < 0 THEN <<"-">> \o NatToStr(-n) ELSE NatToStr(n)

Strings(chars, maxLen) == UNION {[1..k -> chars] : k \in 0..maxLen}

Unsigned(s) == IF Len(s) > 0 /\ s[1] = "-" THEN Tail(s) ELSE s

Sign(s) == IF Len(s) > 0 /\ s[1] = "-" THEN -1 ELSE 1

\* ---------------------------------------------------------------- JSON values
\* t is the JSON type; s, n, b hold a string, a number, a boolean
Missing == [t |-> "missing", s |-> <<>>, n |-> 0, b |-> FALSE]
Null == [t |-> "null", s |-> <<>>, n |-> 0, b |-> FALSE]
Str(x) == [t |-> "str", s |-> x, n |-> 0, b |-> FALSE]
Num(x) == [t |-> "num", s |-> <<>>, n |-> x, b |-> FALSE]
Bool(x) == [t |-> "bool", s |-> <<>>, n |-> 0, b |-> x]

\* ---------------------------------------------------------------- validation
IsIntStr_Unsigned(s) == Len(s) > 0 /\ \A i \in 1..Len(s) : IsDigit(s[i])

\* item_id: int -- the path segment is accepted iff it is a decimal integer
IsIntStr(s) == LET u == Unsigned(s)
               IN Len(u) > 0 /\ \A i \in 1..Len(u) : IsDigit(u[i])

ParseInt(s) == Sign(s) * NatVal(Unsigned(s))

\* price: float -- text is accepted iff it is a decimal numeral
IsFloatStr(s) == LET u == Unsigned(s)
                 IN /\ \A i \in 1..Len(u) : IsDigit(u[i]) \/ u[i] = "."
                    /\ Cardinality({i \in 1..Len(u) : u[i] = "."}) <= 1
                    /\ \E i \in 1..Len(u) : IsDigit(u[i])

ParseFloat(s) == LET u == Unsigned(s)
                     dots == {i \in 1..Len(u) : u[i] = "."}
                     frac == IF dots = {} THEN 0
                             ELSE Len(u) - (CHOOSE i \in dots : TRUE)
                     digs == SelectSeq(u, IsDigit)
                 IN Sign(s) * ((NatVal(digs) * FloatScale) \div Pow10(frac))

\* name: str (required)
NameOk(j) == j.t = "str"

\* description: Optional[str] = None
DescriptionOk(j) == j.t \in {"missing", "null", "str"}

DescriptionValue(j) == IF j.t = "str" THEN j ELSE Null

FloatOk_AnyText(j) == j.t \in {"num", "bool", "str"}

\* price: float (required); numbers pass, booleans and numeric text are coerced
FloatOk(j) == \/ j.t = "num"
              \/ j.t = "bool"
              \/ j.t = "str" /\ IsFloatStr(j.s)

FloatValue(j) == CASE j.t = "num" -> j.n
                   [] j.t = "bool" -> (IF j.b THEN FloatScale ELSE 0)
                   [] j.t = "str" -> ParseFloat(j.s)

\* class Item(BaseModel): the fields that fail, and the validated item
ItemErrors(p) == {f \in {"name", "description", "price"} :
                     \/ f = "name" /\ ~NameOk(p.name)
                     \/ f = "description" /\ ~DescriptionOk(p.description)
                     \/ f = "price" /\ ~FloatOk(p.price)}

Item(p) == [name |-> p.name.s,
            description |-> DescriptionValue(p.description),
            price |-> FloatValue(p.price)]

\* ---------------------------------------------------------------- handlers
Welcome == <<"Welcome to the FastAPI app!">>

read_root == [message |-> Welcome]

create_item_DroppingFirstChar(item) ==
    [message |-> <<"Item ">> \o SubSeq(item.name, 2, Len(item.name))
                 \o <<" created successfully!">>,
     item |-> item]

create_item(item) ==
    [message |-> <<"Item ">> \o item.name \o <<" created successfully!">>,
     item |-> item]

read_item_UsingQuery(item_id, q) ==
    [item_id |-> item_id,
     square |-> IF q.t = "str" THEN item_id + item_id ELSE item_id * item_id]

read_item(item_id, q) == [item_id |-> item_id, square |-> item_id * item_id]

\* what the handler process retains after create_item returns
stored_after_create_Keeping(s, item) == s \cup {item}

stored_after_create(s, item) == s

\* ---------------------------------------------------------------- routes
Ok(body) == [status_code |-> 200, body |-> body]

Unprocessable(fields) == [status_code |-> 422, body |-> [detail |-> fields]]

get_root_route_CheckingQuery(query) ==
    IF query.t = "str" THEN Unprocessable({"q"}) ELSE Ok(read_root)

get_root_route(query) == Ok(read_root)

post_items_route(p) == LET errors == ItemErrors(p)
                       IN IF errors = {} THEN Ok(create_item(Item(p)))
                          ELSE Unprocessable(errors)

get_items_route(path, q) == IF IsIntStr(path) THEN Ok(read_item(ParseInt(path), q))
                            ELSE Unprocessable({"item_id"})

\* ---------------------------------------------------------------- state
VARIABLES
    hreq,         \* the request the handler answered last
    hresp,        \* its response
    stored,       \* items retained by the handler process
    created,      \* some create-item request has succeeded
    name,         \* st.text_input("Item Name")
    description,  \* st.text_area("Item Description")
    price,        \* st.number_input("Item Price", min_value=0.0)
    item_id,      \* st.number_input("Enter Item ID", min_value=1)
    pc,           \* "idle", or the call the script run is blocked on
    net,          \* client requests sent and not yet answered
    reply,        \* response delivered to the blocked call (at most one)
    display,      \* elements rendered by the current script run
    calls,        \* outbound calls issued by the current script run
    last          \* how the last outbound call ended

hvars == <<hreq, hresp, stored, created>>

widgets == <<name, description, price, item_id>>

cvars == <<name, description, price, item_id, pc, net, reply, display, calls, last>>

vars == <<hreq, hresp, stored, created,
          name, description, price, item_id, pc, net, reply, display, calls, last>>

NoPayload == [name |-> Missing, description |-> Missing, price |-> Missing]

Request(op, path, q, body) == [op |-> op, path |-> path, q |-> q, body |-> body]

NoCall == [op |-> "none", outcome |-> "none", status_code |-> 0]

Init ==
    /\ hreq = Request("none", <<>>, Missing, NoPayload)
    /\ hresp = [status_code |-> 0, body |-> [detail |-> {}]]
    /\ stored = {}
    /\ created = FALSE
    /\ name = <<>>
    /\ description = <<>>
    /\ price = 0
    /\ item_id = 1
    /\ pc = "idle"
    /\ net = <<>>
    /\ reply = <<>>
    /\ display = <<>>
    /\ calls = 0
    /\ last = NoCall

\* ---------------------------------------------------------------- handler
\* effect of one request on the handler process
Handle(req) ==
    LET resp == CASE req.op = "root" -> get_root_route(req.q)
                  [] req.op = "create" -> post_items_route(req.body)
                  [] req.op = "read" -> get_items_route(req.path, req.q)
        accepted == req.op = "create" /\ resp.status_code = 200
    IN /\ hreq' = req
       /\ hresp' = resp
       /\ stored' = IF accepted THEN stored_after_create(stored, resp.body.item)
                    ELSE stored
       /\ created' = (created \/ accepted)

Queries == {Missing, Str(<<"x">>)}

NameInputs == {Missing, Null} \cup {Str(x) : x \in Strings(NameChars, MaxNameLen)}

DescriptionInputs == {Missing, Null, Str(<<"d">>)}

PriceInputs == {Missing, Null, Bool(TRUE), Bool(FALSE)}
               \cup {Num((k * FloatScale) \div 2) : k \in -1..(2 * MaxPrice)}
               \cup {Str(x) : x \in Strings(PriceChars, MaxPriceLen)}

PathInputs == Strings(PathChars, MaxPathLen) \ {<<>>}

\* GET / from any HTTP client
Root ==
    /\ \E q \in Queries : Handle(Request("root", <<>>, q, NoPayload))
    /\ UNCHANGED cvars

\* POST /items/ from any HTTP client
Create ==
    /\ \E n \in NameInputs, d \in DescriptionInputs, p \in PriceInputs :
          Handle(Request("create", <<>>, Missing,
                         [name |-> n, description |-> d, price |-> p]))
    /\ UNCHANGED cvars

\* GET /items/{item_id}?q=... from any HTTP client
Read ==
    /\ \E path \in PathInputs, q \in Queries :
          Handle(Request("read", path, q, NoPayload))
    /\ UNCHANGED cvars

HandlerNext == Root \/ Create \/ Read

HandlerSpec == Init /\ [][HandlerNext]_vars

\* ---------------------------------------------------------------- client
FailedCreate == <<"Failed to create the item.">>

FailedFetch == <<"Failed to fetch item details.">>

Element(kind, text) == [kind |-> kind, text |-> text]

number_input_Unclamped(min_value, v) == v

\* st.number_input(..., min_value=m): the widget never holds a value below m
number_input(min_value, v) == IF v < min_value THEN min_value ELSE v

NameTexts == Strings(NameChars, MaxNameLen)

DescriptionTexts == {<<>>, <<"d">>}

PriceEntries == {(k * FloatScale) \div 2 : k \in -2..(2 * MaxPrice)}

IdEntries == -1..MaxId

\* item_data of the "Create Item" branch
item_data == [name |-> Str(name), description |-> Str(description), price |-> Num(price)]

post_calls_Twice == <<Request("create", <<>>, Missing, item_data),
                      Request("create", <<>>, Missing, item_data)>>

\* the outbound calls of the "Create Item" branch
post_calls == <<Request("create", <<>>, Missing, item_data)>>

\* the outbound calls of the "Get Item Details" branch
get_calls == <<Request("read", IntToStr(item_id), Missing, NoPayload)>>

create_output_MessageAlways(r) ==
    IF r.status_code < 500 THEN <<Element("success", <<"created">>)>>
    ELSE <<Element("error", FailedCreate)>>

\* what the "Create Item" branch renders for a response
create_output(r) ==
    IF r.status_code = 200 THEN <<Element("success", r.body.message)>>
    ELSE <<Element("error", FailedCreate)>>

\* what the "Get Item Details" branch renders for a response
get_output(r) ==
    IF r.status_code = 200
    THEN <<Element("write", <<"Item ID: ">> \o IntToStr(r.body.item_id)),
           Element("write", <<"Query: ">> \o IntToStr(r.body.square))>>
    ELSE <<Element("error", FailedFetch)>>

\* a script run that presses no button renders no result
Rerun ==
    /\ pc = "idle"
    /\ display' = <<>>
    /\ calls' = 0
    /\ last' = NoCall
    /\ UNCHANGED <<pc, net, reply>>
    /\ UNCHANGED hvars

SetName ==
    /\ \E x \in NameTexts : name' = x
    /\ Rerun
    /\ UNCHANGED <<description, price, item_id>>

SetDescription ==
    /\ \E x \in DescriptionTexts : description' = x
    /\ Rerun
    /\ UNCHANGED <<name, price, item_id>>

SetPrice ==
    /\ \E x \in PriceEntries : price' = number_input(0, x)
    /\ Rerun
    /\ UNCHANGED <<name, description, item_id>>

SetItemId ==
    /\ \E x \in IdEntries : item_id' = number_input(1, x)
    /\ Rerun
    /\ UNCHANGED <<name, description, price>>

\* st.button("Create Item") pressed: the run reaches requests.post and blocks
ClickCreate ==
    /\ pc = "idle"
    /\ pc' = "post"
    /\ net' = net \o post_calls
    /\ calls' = Len(post_calls)
    /\ display' = <<>>
    /\ last' = NoCall
    /\ UNCHANGED <<reply, widgets>>
    /\ UNCHANGED hvars

\* st.button("Get Item Details") pressed: the run reaches requests.get and blocks
ClickGet ==
    /\ pc = "idle"
    /\ pc' = "get"
    /\ net' = net \o get_calls
    /\ calls' = Len(get_calls)
    /\ display' = <<>>
    /\ last' = NoCall
    /\ UNCHANGED <<reply, widgets>>
    /\ UNCHANGED hvars

\* the backend answers the client's request
Serve ==
    /\ net # <<>>
    /\ reply = <<>>
    /\ Handle(Head(net))
    /\ net' = Tail(net)
    /\ reply' = <<hresp'>>
    /\ UNCHANGED <<pc, display, calls, last, widgets>>

ErrorStatuses == {404, 500, 503}

\* whatever listens on 127.0.0.1:8000 answers with an error status
ServeError ==
    /\ net # <<>>
    /\ reply = <<>>
    /\ \E c \in ErrorStatuses :
          reply' = <<[status_code |-> c, body |-> [detail |-> {"error"}]]>>
    /\ net' = Tail(net)
    /\ UNCHANGED <<pc, display, calls, last, widgets>>
    /\ UNCHANGED hvars

\* requests.post returns: lines 25-28
ReturnCreate ==
    /\ pc = "post"
    /\ reply # <<>>
    /\ display' = create_output(Head(reply))
    /\ last' = [op |-> "create", outcome |-> "response",
                status_code |-> Head(reply).status_code]
    /\ reply' = Tail(reply)
    /\ pc' = "idle"
    /\ UNCHANGED <<net, calls, widgets>>
    /\ UNCHANGED hvars

\* requests.get returns: lines 36-41
ReturnGet ==
    /\ pc = "get"
    /\ reply # <<>>
    /\ display' = get_output(Head(reply))
    /\ last' = [op |-> "read", outcome |-> "response",
                status_code |-> Head(reply).status_code]
    /\ reply' = Tail(reply)
    /\ pc' = "idle"
    /\ UNCHANGED <<net, calls, widgets>>
    /\ UNCHANGED hvars

\* no response arrives: requests raises ConnectionError, which neither
\* branch catches; the script run ends there and the exception is rendered
TransportFailure ==
    /\ pc \in {"post", "get"}
    /\ net # <<>>
    /\ reply = <<>>
    /\ net' = Tail(net)
    /\ display' = <<Element("exception", <<"ConnectionError">>)>>
    /\ last' = [op |-> (IF pc = "post" THEN "create" ELSE "read"),
                outcome |-> "transport_failure", status_code |-> 0]
    /\ pc' = "idle"
    /\ UNCHANGED <<reply, calls, widgets>>
    /\ UNCHANGED hvars

Next ==
    \/ SetName \/ SetDescription \/ SetPrice \/ SetItemId
    \/ ClickCreate \/ ClickGet
    \/ Serve \/ ServeError
    \/ ReturnCreate \/ ReturnGet
    \/ TransportFailure

Spec == Init /\ [][Next]_vars

\* ================================================================ properties
Contains(text, part) ==
    \E i \in 0..(Len(text) - Len(part)) : SubSeq(text, i + 1, i + Len(part)) = part

PathInts == (0 - Pow10(MaxPathLen))..Pow10(MaxPathLen)

FailureMessage(op) == IF op = "create" THEN FailedCreate ELSE FailedFetch

InFlight == Len(net) + Len(reply)

\* C1: a lookup whose path is the decimal form of the integer n answers 200
\* with exactly {item_id: n, square: n*n}, whatever q is and whether or not
\* an item was created before.
C1_ReadItemSquare ==
    hreq.op = "read" =>
        \A n \in PathInts :
            hreq.path = IntToStr(n) =>
                hresp = [status_code |-> 200,
                         body |-> [item_id |-> n, square |-> n * n]]

C1_Witness ==
    /\ created
    /\ hreq.op = "read"
    /\ hreq.q.t = "str"
    /\ hreq.path = <<"1", "2">>
    /\ hresp.status_code = 200
    /\ hresp.body.square = 144

\* C2: a create request with a text name, a JSON-number price and a
\* description that is absent, null or text answers 200; the message
\* contains the name verbatim and the echoed item has the same name,
\* description (or none) and price.
C2_CreateEcho ==
    (/\ hreq.op = "create"
     /\ hreq.body.name.t = "str"
     /\ hreq.body.price.t = "num"
     /\ hreq.body.description.t \in {"missing", "null", "str"})
    => /\ hresp.status_code = 200
       /\ Contains(hresp.body.message, hreq.body.name.s)
       /\ hresp.body.item.name = hreq.body.name.s
       /\ hresp.body.item.price = hreq.body.price.n
       /\ hresp.body.item.description.t =
              (IF hreq.body.description.t = "str" THEN "str" ELSE "null")
       /\ hresp.body.item.description.s = hreq.body.description.s

C2_Witness ==
    /\ hreq.op = "create"
    /\ hreq.body.name.t = "str"
    /\ hreq.body.name.s = <<"b">>
    /\ hreq.body.description.t = "missing"
    /\ hreq.body.price.t = "num"
    /\ hreq.body.price.n = FloatScale \div 2
    /\ hresp.status_code = 200
    /\ hresp.body.message = <<"Item ", "b", " created successfully!">>

\* a price that is present and is not a number in any reading: null, a
\* boolean, or text that is not a decimal numeral
NonNumeric(j) == \/ j.t \in {"null", "bool"}
                 \/ j.t = "str" /\ ~IsFloatStr(j.s)

ValidationError == /\ hresp.status_code = 422
                   /\ DOMAIN hresp.body = {"detail"}

C4_ReadItemValidation ==
    hreq.op = "read" =>
        /\ hresp.status_code \in {200, 422}
        /\ (hresp.status_code = 200) <=> (\E n \in PathInts : hreq.path = IntToStr(n))
        /\ hresp.status_code = 422 => DOMAIN hresp.body = {"detail"}

C4_Witness ==
    /\ hreq.op = "read"
    /\ hreq.path = <<"a", "1">>
    /\ hresp.status_code = 422

\* C5: when a client call ended with a response whose status is not 200 the
\* display is exactly the fixed failure message of that operation; success
\* output is on display only when the status was 200.
C5_StatusCollapsed ==
    last.outcome = "response" =>
        /\ last.status_code # 200 =>
               display = <<Element("error", FailureMessage(last.op))>>
        /\ (\E i \in 1..Len(display) : display[i].kind \in {"success", "write"})
               => last.status_code = 200

C5_Witness ==
    /\ last.op = "create"
    /\ last.outcome = "response"
    /\ last.status_code = 500
    /\ display = <<Element("error", FailedCreate)>>

\* C6: when a client call ended without a response the display is the fixed
\* failure message of that operation and the client is idle again.
C6_TransportCollapsed ==
    last.outcome = "transport_failure" =>
        /\ display = <<Element("error", FailureMessage(last.op))>>
        /\ pc = "idle"

\* C7: the handler retains nothing, whatever requests it has answered, and
\* a successful lookup carries item_id and square only, also after a create.
C7_NothingStored ==
    /\ stored = {}
    /\ (hreq.op = "read" /\ hresp.status_code = 200)
           => DOMAIN hresp.body = {"item_id", "square"}

C7_Witness ==
    /\ created
    /\ stored = {}
    /\ hreq.op = "read"
    /\ hresp.status_code = 200

\* C8: the root route answers 200 with the fixed greeting, whatever the
\* request carries and whatever was requested before.
C8_RootGreeting ==
    hreq.op = "root" =>
        hresp = [status_code |-> 200,
                 body |-> [message |-> <<"Welcome to the FastAPI app!">>]]

C8_Witness ==
    /\ created
    /\ hreq.op = "root"
    /\ hreq.q.t = "str"
    /\ hresp.status_code = 200

\* C9: at most one client request is in flight; a script run issues at most
\* one call and a run that ended a call issued exactly one; the client is
\* blocked exactly while its request is in flight; while blocked the
\* widgets do not change and no further call is issued, and a request is
\* only ever sent by a button press of the idle client.
C9_SingleBlockingCall ==
    /\ [](/\ InFlight <= 1
          /\ calls <= 1
          /\ (pc # "idle") <=> (InFlight = 1)
          /\ last.outcome # "none" => (calls = 1 /\ pc = "idle"))
    /\ [][/\ pc # "idle" => (UNCHANGED widgets /\ calls' = calls)
          /\ Len(net') > Len(net) => (pc = "idle" /\ pc' # "idle")]_vars

C9_Witness ==
    /\ last.outcome = "response"
    /\ last.status_code = 503
    /\ calls = 1
    /\ pc = "idle"
    /\ InFlight = 0

\* C10: every create request of the client carries text name and
\* description and a price >= 0; every lookup request of the client has
\* the path of an integer >= 1; the handler answers every lookup of the
\* client with 200.
C10_ClampedRequests ==
    /\ \A i \in 1..Len(net) :
          /\ net[i].op = "create" =>
                 /\ net[i].body.name.t = "str"
                 /\ net[i].body.description.t = "str"
                 /\ net[i].body.price.t = "num"
                 /\ net[i].body.price.n >= 0
          /\ net[i].op = "read" =>
                 /\ IsIntStr(net[i].path)
                 /\ ParseInt(net[i].path) >= 1
    /\ hreq.op = "read" => hresp.status_code = 200

C10_Witness ==
    /\ pc = "get"
    /\ reply # <<>>
    /\ hreq.op = "read"
    /\ hreq.path = <<"3">>
    /\ Head(reply).status_code = 200
    /\ Head(reply).body.square = 9

====
